---- MODULE Spec2Model ----
(***************************************************************************)
(* Model of battery_cycler_gui.py: the configuration store, the cycling    *)
(* session controller (BatteryCyclerApp.toggle_cycling, pause_at_percent,  *)
(* stop_at_percent, update_status, quit_app) and the status / statistics   *)
(* probes (get_battery_info, get_cycle_info, the state-file parsing of     *)
(* show_stats).                                                            *)
(*                                                                         *)
(* The event loop is single threaded: every handler is one atomic action.  *)
(* The cycling session is an external OS process; its exit is an action of *)
(* the environment.  Outcomes of system calls that the handlers branch on  *)
(* (config write, killpg) are drawn nondeterministically.                  *)
(***************************************************************************)
EXTENDS Integers, Sequences, FiniteSets, TLC

VARIABLES
    config,          \* self.config: the in-memory configuration record
    disk,            \* the content of CONFIG_FILE
    script_process,  \* self.script_process: 0 is None, else the pid of the Popen handle
    procs,           \* OS view of every session ever launched: pid -> state
    status_item,     \* self.status_item.title
    toggle_item,     \* self.toggle_item.title
    calls,           \* external calls made by the handler that ran last, in order
    last,            \* which handler ran last, its input, and the state it met
    faults,          \* number of config writes that have failed so far
    app,             \* "running" while the rumps application runs, "quit" after quit_app
    arg,             \* input of a probe function (probe specifications only)
    ret              \* result of a probe function (probe specifications only)

vars == <<config, disk, script_process, procs, status_item, toggle_item,
          calls, last, faults, app, arg, ret>>

ctlVars == <<config, disk, script_process, procs, status_item, toggle_item,
             calls, last, faults, app>>

(***************************************************************************)
(* Bounds of the model.                                                    *)
(***************************************************************************)
MaxSessions == 2    \* sessions that may be launched in one run
MaxFaults == 1      \* config writes that may fail in one run
MaxTokens == 3      \* tokens of the power-status text
MaxLines == 2       \* lines of the session-counter file
MaxProfLines == 2   \* lines of the power-data report

(***************************************************************************)
(* Configuration: DEFAULT_CONFIG, the menus, the config file.              *)
(***************************************************************************)
\* A JSON boolean in a stress field (legacy files) is written JTRUE / JFALSE.
JTRUE == "<true>"
JFALSE == "<false>"

KeyOrder == <<"upper_limit", "lower_limit", "pause_limit", "reset_limit",
              "cpu_stress", "gpu_stress">>

Keys == {KeyOrder[i] : i \in 1..Len(KeyOrder)}

DEFAULT_CONFIG ==
    [upper_limit |-> 80, lower_limit |-> 20, pause_limit |-> 50,
     reset_limit |-> 80, cpu_stress |-> "high", gpu_stress |-> "off"]

STRESS_LEVELS == <<"Off", "Low", "Medium", "High">>

\* str.lower() on the strings of the model (the others hold no capitals)
Lower(title) ==
    CASE title = "Off" -> "off"
      [] title = "Low" -> "low"
      [] title = "Medium" -> "medium"
      [] title = "High" -> "high"
      [] title = "Discharging" -> "discharging"
      [] title = "AC Power" -> "ac power"
      [] OTHER -> title

\* Python range(a, b, s)
Range(a, b, s) == {v \in a..(b - 1) : (v - a) % s = 0}

PauseMenu == Range(20, 101, 5)
StopMenu == Range(20, 101, 5)
UpperMenu == Range(50, 101, 10)
LowerMenu == Range(10, 51, 10)

\* The menu entries the user actions of the model select: handlers store the
\* selected value without looking at it, so one entry per menu stands for all.
\* The limit entries differ from the defaults; the stress entries are the
\* default levels, which differ from the booleans of a legacy file.
UpperChoices == {v \in UpperMenu : v = 50}
LowerChoices == {v \in LowerMenu : v = 50}
PauseChoices == {v \in PauseMenu : v = 25}
StopChoices == {v \in StopMenu : v = 100}
CpuChoices == {STRESS_LEVELS[i] : i \in {4}}
GpuChoices == {STRESS_LEVELS[i] : i \in {1}}

NoObject == [k \in {} |-> 0]

AbsentFile == [kind |-> "absent", obj |-> NoObject]
GarbageFile == [kind |-> "garbage", obj |-> NoObject]
ObjectFile(o) == [kind |-> "object", obj |-> o]

\* json.dump(self.config, f) followed by a later json.load(f)
Dump(c) == ObjectFile(c)

\* dict item assignment config[key] = value
Put(c, key, value) ==
    [k \in DOMAIN c \cup {key} |-> IF k = key THEN value ELSE c[k]]

\* The merge with the test "if key not in config" left out
RECURSIVE MergeDefaults_Overwrites(_, _)
MergeDefaults_Overwrites(c, i) ==
    IF i > Len(KeyOrder) THEN c
    ELSE MergeDefaults_Overwrites(Put(c, KeyOrder[i], DEFAULT_CONFIG[KeyOrder[i]]), i + 1)

\* load_config, the loop "for key in DEFAULT_CONFIG: if key not in config: ..."
RECURSIVE MergeDefaults(_, _)
MergeDefaults(c, i) ==
    IF i > Len(KeyOrder) THEN c
    ELSE LET key == KeyOrder[i] IN
         MergeDefaults(IF key \notin DOMAIN c
                          THEN Put(c, key, DEFAULT_CONFIG[key]) ELSE c,
                       i + 1)

\* The body of the try block of load_config: json.load raises on text that is
\* not JSON; on a JSON scalar the membership test raises TypeError; on a JSON
\* array (one that does not hold all six key names) the first item assignment
\* raises TypeError.
TryLoad(f) ==
    IF f.kind = "object"
        THEN [raised |-> FALSE, value |-> MergeDefaults(f.obj, 1)]
        ELSE [raised |-> TRUE, value |-> NoObject]

\* load_config: os.path.exists, the try block, "except: pass", and the
\* fall-through "return DEFAULT_CONFIG.copy()".
load_config(f) ==
    IF f.kind = "absent"
        THEN [raised |-> FALSE, value |-> DEFAULT_CONFIG]
        ELSE LET r == TryLoad(f) IN
             IF r.raised
                 THEN [raised |-> FALSE, value |-> DEFAULT_CONFIG]
                 ELSE r

\* isinstance(level, bool)
IsBool(v) == v \in {JTRUE, JFALSE}

\* __init__: "if isinstance(cpu_level, bool): ... self.config[key] = level"
MigrateKey(c, key) ==
    IF IsBool(c[key])
        THEN Put(c, key, IF c[key] = JTRUE THEN "high" ELSE "off")
        ELSE c

\* __init__: the legacy stress migration of both stress fields
Migrate(c) == MigrateKey(MigrateKey(c, "cpu_stress"), "gpu_stress")

(***************************************************************************)
(* The session process and the status refresh.                             *)
(***************************************************************************)
Pids == 1..MaxSessions

Call(op, a, ok) == [op |-> op, arg |-> a, ok |-> ok]

\* "self.script_process and self.script_process.poll() is None"
Active(sp, pr) == sp # 0 /\ pr[sp] # "exited"

\* update_status without "self.script_process = None" in the else branch
UpdateStatus_KeepsHandle(sp, pr) ==
    IF Active(sp, pr)
        THEN [sp |-> sp, status |-> "Status: Cycling Active",
              toggle |-> "Stop Cycling"]
        ELSE [sp |-> sp, status |-> "Status: Idle", toggle |-> "Start Cycling"]

\* update_status: the status branch (the handle is dropped when not Active)
UpdateStatus(sp, pr) ==
    IF Active(sp, pr)
        THEN [sp |-> sp, status |-> "Status: Cycling Active",
              toggle |-> "Stop Cycling"]
        ELSE [sp |-> 0, status |-> "Status: Idle", toggle |-> "Start Cycling"]

\* Outcomes of "try: os.killpg(os.getpgid(pid), SIGTERM) except: terminate()":
\*   group_ok      the group signal is delivered
\*   group_failed  killpg raises, terminate() signals the tracked process
\*   gone          the session exited after the poll: killpg raises, and
\*                 terminate() finds the process finished and sends nothing
StopOutcomes == {"group_ok", "group_failed", "gone"}

\* The stop path with the group signal tried again in the except branch
StopCalls_Retry(p, o) ==
    IF o = "group_ok"
        THEN <<Call("killpg", p, TRUE)>>
        ELSE <<Call("killpg", p, FALSE), Call("killpg", p, FALSE),
               Call("terminate", p, o # "gone")>>

\* The calls made by the try / except of the stop paths
StopCalls(p, o) ==
    IF o = "group_ok"
        THEN <<Call("killpg", p, TRUE)>>
        ELSE <<Call("killpg", p, FALSE), Call("terminate", p, o # "gone")>>

StopProcs(pr, p, o) ==
    [pr EXCEPT ![p] = IF o = "gone" THEN "exited" ELSE "terminating"]

\* save_config: open(CONFIG_FILE, 'w') may fail (file untouched) and
\* json.dump may fail after the file was truncated (file left unparsable);
\* both raise out of save_config.
SaveOutcomes ==
    {"ok"} \cup (IF faults < MaxFaults THEN {"open_failed", "write_failed"} ELSE {})

save_config(c, o) ==
    CASE o = "ok" -> Dump(c)
      [] o = "open_failed" -> disk
      [] o = "write_failed" -> GarbageFile

\* subprocess.Popen: the pid of the new session
NewPid(pr) == CHOOSE p \in Pids : pr[p] = "unborn" /\ \A q \in Pids : q < p => pr[q] # "unborn"

CanLaunch(pr) == \E p \in Pids : pr[p] = "unborn"

Did(op, val, level, raised) ==
    [op |-> op, val |-> val, level |-> level, raised |-> raised]

(***************************************************************************)
(* Construction: BatteryCyclerApp.__init__.                                *)
(***************************************************************************)
\* Config files the application may find at startup: none, an unparsable
\* one, one written by an earlier version (boolean stress fields, no
\* pause_limit / reset_limit), one with a limit outside the menus, and one
\* written by this version.
LegacyFile ==
    ObjectFile([upper_limit |-> 80, lower_limit |-> 20,
                cpu_stress |-> JTRUE, gpu_stress |-> JFALSE])

\* A config file whose lower limit was not written through the menu (edited
\* by hand, or left by another version): json.load accepts any number.
EditedFile ==
    ObjectFile([lower_limit |-> 90])

InitFiles == {AbsentFile, GarbageFile, LegacyFile, EditedFile, Dump(DEFAULT_CONFIG)}

NoValue == [fn |-> "none"]

Init ==
    /\ disk \in InitFiles
    /\ config = Migrate(load_config(disk).value)
    /\ script_process = 0
    /\ procs = [p \in Pids |-> "unborn"]
    /\ status_item = UpdateStatus(0, procs).status
    /\ toggle_item = UpdateStatus(0, procs).toggle
    /\ calls = <<>>
    /\ last = [op |-> "init", val |-> 0, level |-> "", raised |-> FALSE]
    /\ faults = 0
    /\ app = "running"
    /\ arg = NoValue
    /\ ret = NoValue

(***************************************************************************)
(* Handlers.                                                               *)
(***************************************************************************)
\* A handler that raised out of save_config: nothing after the call ran.
SaveRaised(op, val, level, c, o) ==
    /\ config' = c
    /\ disk' = save_config(c, o)
    /\ faults' = faults + 1
    /\ calls' = <<Call("save_config", 0, FALSE)>>
    /\ last' = Did(op, val, level, TRUE)
    /\ UNCHANGED <<script_process, procs, status_item, toggle_item, app, arg, ret>>

\* update_status, as the timer callback and as the last statement of a
\* handler.  It first calls get_battery_info and get_cycle_info for the title
\* and the info item; both catch every exception (see their specifications
\* below), so the status branch is always reached.
Refresh(sp, pr) ==
    /\ script_process' = UpdateStatus(sp, pr).sp
    /\ status_item' = UpdateStatus(sp, pr).status
    /\ toggle_item' = UpdateStatus(sp, pr).toggle

\* Timer callback
update_status ==
    /\ app = "running"
    /\ Refresh(script_process, procs)
    /\ calls' = <<Call("poll", script_process, TRUE)>>
    /\ last' = Did("update_status", 0, "", FALSE)
    /\ UNCHANGED <<config, disk, procs, faults, app, arg, ret>>

\* The stop branch with "self.script_process = None" left out
ToggleStop_KeepsHandle(o) ==
    /\ procs' = StopProcs(procs, script_process, o)
    /\ Refresh(script_process, procs')
    /\ calls' = StopCalls(script_process, o)
                    \o <<Call("notification", 0, TRUE)>>
    /\ last' = Did("toggle", 0, "", FALSE)
    /\ UNCHANGED <<config, disk, faults, app, arg, ret>>

\* toggle_cycling, the stop branch
ToggleStop(o) ==
    /\ procs' = StopProcs(procs, script_process, o)
    /\ Refresh(0, procs')
    /\ calls' = StopCalls(script_process, o)
                    \o <<Call("notification", 0, TRUE)>>
    /\ last' = Did("toggle", 0, "", FALSE)
    /\ UNCHANGED <<config, disk, faults, app, arg, ret>>

\* The start branch with Popen placed before self.save_config()
ToggleStart_LaunchFirst(o, early) ==
    LET p == NewPid(procs) IN
    IF o # "ok"
        THEN /\ disk' = save_config(config, o)
             /\ faults' = faults + 1
             /\ procs' = [procs EXCEPT ![p] = "running"]
             /\ script_process' = p
             /\ calls' = <<Call("Popen", p, TRUE), Call("save_config", 0, FALSE)>>
             /\ last' = Did("toggle", 0, "", TRUE)
             /\ UNCHANGED <<config, status_item, toggle_item, app, arg, ret>>
        ELSE /\ disk' = save_config(config, o)
             /\ procs' = [procs EXCEPT ![p] = IF early THEN "exited" ELSE "running"]
             /\ Refresh(p, procs')
             /\ calls' = <<Call("Popen", p, TRUE), Call("save_config", 0, TRUE),
                           Call("notification", 0, TRUE)>>
             /\ last' = Did("toggle", 0, "", FALSE)
             /\ UNCHANGED <<config, faults, app, arg, ret>>

\* toggle_cycling, the start branch; early: the new session has exited by the
\* time update_status polls it.
ToggleStart(o, early) ==
    IF o # "ok"
        THEN SaveRaised("toggle", 0, "", config, o)
        ELSE LET p == NewPid(procs) IN
             /\ disk' = save_config(config, o)
             /\ procs' = [procs EXCEPT ![p] = IF early THEN "exited" ELSE "running"]
             /\ Refresh(p, procs')
             /\ calls' = <<Call("save_config", 0, TRUE), Call("Popen", p, TRUE),
                           Call("notification", 0, TRUE)>>
             /\ last' = Did("toggle", 0, "", FALSE)
             /\ UNCHANGED <<config, faults, app, arg, ret>>

toggle_cycling ==
    /\ app = "running"
    /\ IF Active(script_process, procs)
           THEN \E o \in StopOutcomes : ToggleStop(o)
           ELSE /\ CanLaunch(procs)
                /\ \E o \in SaveOutcomes, early \in BOOLEAN : ToggleStart(o, early)

\* A setter with the call of save_config left out
SetField_NoSave(op, key, value, val, level) ==
    /\ app = "running"
    /\ config' = Put(config, key, value)
    /\ calls' = <<>>
    /\ last' = Did(op, val, level, FALSE)
    /\ UNCHANGED <<disk, script_process, procs, status_item, toggle_item,
                   faults, app, arg, ret>>

\* set_upper_limit, set_lower_limit, set_cpu_stress, set_gpu_stress
SetField(op, key, value, val, level) ==
    /\ app = "running"
    /\ \E o \in SaveOutcomes :
          LET c == Put(config, key, value) IN
          IF o # "ok"
              THEN SaveRaised(op, val, level, c, o)
              ELSE /\ config' = c
                   /\ disk' = save_config(c, o)
                   /\ calls' = <<Call("save_config", 0, TRUE)>>
                   /\ last' = Did(op, val, level, FALSE)
                   /\ UNCHANGED <<script_process, procs, status_item,
                                  toggle_item, faults, app, arg, ret>>

set_upper_limit == \E v \in UpperChoices : SetField("set_upper_limit", "upper_limit", v, v, "")
set_lower_limit == \E v \in LowerChoices : SetField("set_lower_limit", "lower_limit", v, v, "")
set_cpu_stress == \E t \in CpuChoices : SetField("set_cpu_stress", "cpu_stress", Lower(t), 0, t)
set_gpu_stress == \E t \in GpuChoices : SetField("set_gpu_stress", "gpu_stress", Lower(t), 0, t)

\* The maintain call handed the stored pause limit instead of the selection
run_battery_cmd_PauseLimit(val) == <<Call("maintain", config.pause_limit, TRUE)>>

\* run_battery_cmd(["maintain", str(val)]): every failure of the CLI is caught
\* inside run_battery_cmd.
run_battery_cmd(val) == <<Call("maintain", val, TRUE)>>

\* "Kill any stress processes": subprocess.run without check, the exit
\* status of pkill is not looked at.
KillStress == <<Call("pkill stress-ng", 0, TRUE), Call("pkill ffmpeg", 0, TRUE)>>

\* The override without the closing self.update_status(None)
OverrideTail_NoRefresh(val, o) ==
    LET act == Active(script_process, procs)
        pr == IF act THEN StopProcs(procs, script_process, o) ELSE procs
        sp == IF act THEN 0 ELSE script_process
    IN  /\ procs' = pr
        /\ script_process' = sp
        /\ UNCHANGED <<status_item, toggle_item>>
        /\ calls' = <<Call("save_config", 0, TRUE)>>
                        \o (IF act THEN StopCalls(script_process, o) ELSE <<>>)
                        \o KillStress
                        \o run_battery_cmd(val)
                        \o <<Call("notification", 0, TRUE)>>

\* The part of pause_at_percent / stop_at_percent after save_config returned
OverrideTail(val, o) ==
    LET act == Active(script_process, procs)
        pr == IF act THEN StopProcs(procs, script_process, o) ELSE procs
        sp == IF act THEN 0 ELSE script_process
    IN  /\ procs' = pr
        /\ Refresh(sp, pr)
        /\ calls' = <<Call("save_config", 0, TRUE)>>
                        \o (IF act THEN StopCalls(script_process, o) ELSE <<>>)
                        \o KillStress
                        \o run_battery_cmd(val)
                        \o <<Call("notification", 0, TRUE)>>

\* pause_at_percent and stop_at_percent
Override(op, key, val) ==
    /\ app = "running"
    /\ \E s \in SaveOutcomes :
          LET c == Put(config, key, val) IN
          IF s # "ok"
              THEN SaveRaised(op, val, "", c, s)
              ELSE /\ config' = c
                   /\ disk' = save_config(c, s)
                   /\ \E o \in (IF Active(script_process, procs)
                                   THEN StopOutcomes ELSE {"group_ok"}) :
                         OverrideTail(val, o)
                   /\ last' = Did(op, val, "", FALSE)
                   /\ UNCHANGED <<faults, app, arg, ret>>

pause_at_percent == \E v \in PauseChoices : Override("pause_at_percent", "pause_limit", v)
stop_at_percent == \E v \in StopChoices : Override("stop_at_percent", "reset_limit", v)

\* quit_app: the signal is sent, the handle is not cleared, the application ends
quit_app ==
    /\ app = "running"
    /\ IF Active(script_process, procs)
           THEN \E o \in StopOutcomes :
                   /\ procs' = StopProcs(procs, script_process, o)
                   /\ calls' = StopCalls(script_process, o)
           ELSE /\ procs' = procs
                /\ calls' = <<>>
    /\ app' = "quit"
    /\ last' = Did("quit_app", 0, "", FALSE)
    /\ UNCHANGED <<config, disk, script_process, status_item, toggle_item,
                   faults, arg, ret>>

\* The environment: a session process ends (on its own, or after a signal).
SessionExit ==
    \E p \in Pids :
        /\ procs[p] \in {"running", "terminating"}
        /\ procs' = [procs EXCEPT ![p] = "exited"]
        /\ calls' = <<>>
        /\ last' = Did("exit", p, "", FALSE)
        /\ UNCHANGED <<config, disk, script_process, status_item, toggle_item,
                       faults, app, arg, ret>>

Next ==
    \/ update_status
    \/ toggle_cycling
    \/ set_upper_limit
    \/ set_lower_limit
    \/ set_cpu_stress
    \/ set_gpu_stress
    \/ pause_at_percent
    \/ stop_at_percent
    \/ quit_app
    \/ SessionExit

Spec == Init /\ [][Next]_vars

\* The timer of __init__ keeps firing while the application runs.
FairSpec == Spec /\ WF_vars(update_status)

(***************************************************************************)
(* Properties of the session controller.                                   *)
(***************************************************************************)
IDLE == "Status: Idle"
ACTIVE == "Status: Cycling Active"

OverrideOps == {"pause_at_percent", "stop_at_percent"}
SetterOps == {"set_upper_limit", "set_lower_limit", "set_cpu_stress", "set_gpu_stress"}

LimitOf(op) == IF op = "pause_at_percent" THEN "pause_limit" ELSE "reset_limit"

\* Positions of the calls named op in a call sequence
At(cs, op) == {i \in 1..Len(cs) : cs[i].op = op}

Before(cs, a, b) == \A i \in At(cs, a), j \in At(cs, b) : i < j

\* The stop sequence on pid p appears in cs: one group signal and, exactly
\* when it failed, one direct terminate after it.
StopAttempted(cs, p) ==
    /\ Cardinality(At(cs, "killpg")) = 1
    /\ \A i \in At(cs, "killpg") :
          /\ cs[i].arg = p
          /\ Cardinality(At(cs, "terminate")) = (IF cs[i].ok THEN 0 ELSE 1)
    /\ \A j \in At(cs, "terminate") : cs[j].arg = p
    /\ Before(cs, "killpg", "terminate")

\* C1 as stated: a toggle from Idle (no tracked handle) leaves the controller
\* Active with the handle set to the newly launched session, and a toggle
\* while the session runs attempts termination and leaves the controller
\* Idle with the handle cleared.
C1_ToggleFlipAsStated ==
    [][last'.op = "toggle" =>
          /\ script_process = 0 =>
                /\ script_process' # 0
                /\ procs[script_process'] = "unborn"
                /\ status_item' = ACTIVE
          /\ Active(script_process, procs) =>
                /\ script_process' = 0
                /\ status_item' = IDLE
                /\ StopAttempted(calls', script_process)]_vars

\* C1 amended: a toggle from Idle (no tracked handle) whose config write
\* succeeds launches a new session; the controller is Active with the handle
\* set to it unless the session has exited by the time the closing status
\* refresh polls it, and then the handle is cleared and the controller is
\* Idle.  When the config write fails the handler raises, nothing is launched
\* and the controller stays Idle.  A toggle while the session runs attempts
\* termination and leaves the controller Idle with the handle cleared.
C1_ToggleFlip ==
    [][last'.op = "toggle" =>
          /\ (script_process = 0 /\ ~last'.raised) =>
                \E p \in Pids :
                    /\ procs[p] = "unborn"
                    /\ procs'[p] # "unborn"
                    /\ At(calls', "Popen") # {}
                    /\ \A i \in At(calls', "Popen") : calls'[i].arg = p
                    /\ IF procs'[p] = "exited"
                          THEN script_process' = 0 /\ status_item' = IDLE
                          ELSE script_process' = p /\ status_item' = ACTIVE
          /\ (script_process = 0 /\ last'.raised) =>
                /\ script_process' = 0
                /\ procs' = procs
                /\ status_item' = IDLE
                /\ At(calls', "Popen") = {}
          /\ Active(script_process, procs) =>
                /\ ~last'.raised
                /\ script_process' = 0
                /\ status_item' = IDLE
                /\ StopAttempted(calls', script_process)]_vars

\* A second toggle has stopped the session that a first one started.
C1_Witness ==
    /\ last.op = "toggle"
    /\ At(calls, "killpg") # {}
    /\ script_process = 0
    /\ status_item = IDLE
    /\ \E p \in Pids : procs[p] = "terminating"

\* C2 as stated: pause_at_percent / stop_at_percent always end with the
\* controller Idle (no tracked handle), whatever the entry state, and always
\* persist the chosen value in pause_limit / reset_limit.
C2_OverrideAsStated ==
    last.op \in OverrideOps =>
        /\ script_process = 0
        /\ status_item = IDLE
        /\ disk.kind = "object"
        /\ LimitOf(last.op) \in DOMAIN disk.obj
        /\ disk.obj[LimitOf(last.op)] = last.val

\* C2 amended: an override whose config write succeeds ends with the
\* controller Idle (no tracked handle) whatever the entry state, and the
\* chosen value is persisted in pause_limit / reset_limit, also when no
\* session was running.  When the config write fails the handler raises right
\* there: the value is set in memory only, and the handle, the session and
\* the reported status are left as they were.
C2_Override ==
    [][last'.op \in OverrideOps =>
          /\ config'[LimitOf(last'.op)] = last'.val
          /\ \A k \in DOMAIN config : k # LimitOf(last'.op) => config'[k] = config[k]
          /\ ~last'.raised =>
                /\ script_process' = 0
                /\ status_item' = IDLE
                /\ toggle_item' = "Start Cycling"
                /\ disk' = ObjectFile(config')
          /\ last'.raised =>
                /\ UNCHANGED <<script_process, procs, status_item, toggle_item>>
                /\ disk' \in {disk, GarbageFile}]_vars

\* An override issued while no session was running, with the value on disk.
C2_Witness ==
    /\ last.op = "pause_at_percent"
    /\ ~last.raised
    /\ At(calls, "killpg") = {}
    /\ \A p \in Pids : procs[p] = "unborn"
    /\ script_process = 0
    /\ disk.kind = "object"
    /\ disk.obj.pause_limit = last.val
    /\ last.val # DEFAULT_CONFIG.pause_limit

\* C3: when toggle or an override stops an Active session, the handle is
\* cleared whatever the outcome of the signals: one group signal, exactly one
\* direct terminate when (and only when) the group signal failed, no further
\* attempt, no exception out of the handler, and the controller is Idle.
C3_StopClearsHandle ==
    [][(/\ last'.op \in OverrideOps \cup {"toggle"}
        /\ Active(script_process, procs)
        /\ ~last'.raised) =>
          /\ StopAttempted(calls', script_process)
          /\ script_process' = 0
          /\ status_item' = IDLE
          /\ toggle_item' = "Start Cycling"
          /\ procs'[script_process] \in {"terminating", "exited"}]_vars

\* An override stopped a session whose group signal failed.
C3_Witness ==
    /\ last.op = "stop_at_percent"
    /\ \E i \in At(calls, "killpg") : ~calls[i].ok
    /\ Cardinality(At(calls, "terminate")) = 1
    /\ script_process = 0
    /\ status_item = IDLE

RefreshingOps == OverrideOps \cup {"toggle", "update_status", "init"}

C5_OverrideOrderAsStated ==
    last.op \in OverrideOps =>
        /\ Cardinality(At(calls, "maintain")) = 1
        /\ \A i \in At(calls, "maintain") : calls[i].arg = last.val
        /\ Before(calls, "save_config", "maintain")
        /\ Before(calls, "pkill stress-ng", "maintain")
        /\ Before(calls, "pkill ffmpeg", "maintain")
        /\ status_item = IDLE

\* C5 amended: an override whose config write succeeds performs, in this
\* order, the write of the limit field, the stop of the session if it was
\* Active, the kill of the stress-ng pattern, the kill of the ffmpeg pattern,
\* and one call of the maintain primitive with the selected value, from
\* either state; the controller is Idle afterwards.  When the config write
\* fails the handler raises and none of the later steps runs.
C5_OverrideOrder ==
    [][last'.op \in OverrideOps =>
          IF last'.raised
              THEN /\ Len(calls') = 1
                   /\ calls'[1].op = "save_config"
                   /\ ~calls'[1].ok
              ELSE /\ calls'[1] = Call("save_config", 0, TRUE)
                   /\ Cardinality(At(calls', "save_config")) = 1
                   /\ IF Active(script_process, procs)
                         THEN StopAttempted(calls', script_process)
                         ELSE At(calls', "killpg") \cup At(calls', "terminate") = {}
                   /\ Cardinality(At(calls', "pkill stress-ng")) = 1
                   /\ Cardinality(At(calls', "pkill ffmpeg")) = 1
                   /\ Cardinality(At(calls', "maintain")) = 1
                   /\ \A i \in At(calls', "maintain") : calls'[i].arg = last'.val
                   /\ Before(calls', "save_config", "killpg")
                   /\ Before(calls', "killpg", "pkill stress-ng")
                   /\ Before(calls', "terminate", "pkill stress-ng")
                   /\ Before(calls', "pkill stress-ng", "pkill ffmpeg")
                   /\ Before(calls', "pkill ffmpeg", "maintain")
                   /\ At(calls', "Popen") = {}
                   /\ status_item' = IDLE
                   /\ script_process' = 0]_vars

\* An override from Idle reached the maintain primitive with its value.
C5_Witness ==
    /\ last.op = "stop_at_percent"
    /\ ~last.raised
    /\ At(calls, "killpg") = {}
    /\ \E i \in At(calls, "maintain") : calls[i].arg = last.val
    /\ last.val # config.pause_limit
    /\ status_item = IDLE

MutatingOps == SetterOps \cup OverrideOps

\* The legacy migration of __init__ changed the loaded record.
Migrated == last.op = "init" /\ config # load_config(disk).value

\* C6 as stated: after every operation that changed the in-memory config
\* (a selection, an override, the legacy migration at startup) the persisted
\* record equals the in-memory record.
C6_PersistAsStated ==
    (last.op \in MutatingOps \/ Migrated) => disk = Dump(config)

\* C6 amended: every limit selection, stress-level selection and pause /
\* reset override writes the full in-memory record before it returns, so
\* after each of them that returns the persisted record equals the in-memory
\* record; when the write fails the handler raises with the change made in
\* memory only.  The legacy stress migration at startup is not written: the
\* file keeps its content until the next save.
C6_Persist ==
    /\ (last.op \in MutatingOps /\ ~last.raised) => disk = Dump(config)
    /\ (last.op \in MutatingOps /\ last.raised) =>
          /\ Len(calls) = 1
          /\ calls[1].op = "save_config"
          /\ ~calls[1].ok
    /\ last.op = "init" =>
          /\ disk \in InitFiles
          /\ config = Migrate(load_config(disk).value)
          /\ At(calls, "save_config") = {}

\* A selection changed the config and the file holds the new record.
C6_Witness ==
    /\ last.op = "set_upper_limit"
    /\ ~last.raised
    /\ config.upper_limit # DEFAULT_CONFIG.upper_limit
    /\ disk = Dump(config)

\* The start branch of toggle_cycling ran: the handler was toggle and the
\* state it met was not Active.
StartRan == last'.op = "toggle" /\ ~Active(script_process, procs)

\* C11 as stated: the start branch of toggle launches the session only after
\* the config write has completed; when the write fails the error propagates,
\* no session is launched and the controller is left Idle with no tracked
\* handle.
C11_SaveBeforeLaunchAsStated ==
    [][StartRan =>
          /\ ~last'.raised =>
                /\ At(calls', "Popen") # {}
                /\ Before(calls', "save_config", "Popen")
                /\ \A i \in At(calls', "save_config") : calls'[i].ok
                /\ disk' = Dump(config)
          /\ last'.raised =>
                /\ At(calls', "Popen") = {}
                /\ procs' = procs
                /\ status_item' = IDLE
                /\ script_process' = 0]_vars

\* C11 amended: the start branch of toggle writes the current config first
\* and launches the session only after the write has returned (the file then
\* holds the in-memory record).  When the write fails the error propagates
\* out of toggle before anything else has run: no session is launched, no
\* process changes, and the tracked handle and the displayed status are left
\* as they were.  The controller is not Active; the handle is absent if it
\* was absent, but a handle of a session that had exited and was not yet
\* reclassified stays tracked (and the display may still read Active) until
\* the next status refresh.
C11_SaveBeforeLaunch ==
    [][StartRan =>
          /\ ~last'.raised =>
                /\ At(calls', "Popen") # {}
                /\ At(calls', "save_config") # {}
                /\ Before(calls', "save_config", "Popen")
                /\ \A i \in At(calls', "save_config") : calls'[i].ok
                /\ disk' = Dump(config)
                /\ config' = config
          /\ last'.raised =>
                /\ calls' = <<Call("save_config", 0, FALSE)>>
                /\ At(calls', "Popen") = {}
                /\ procs' = procs
                /\ config' = config
                /\ script_process' = script_process
                /\ status_item' = status_item
                /\ toggle_item' = toggle_item
                /\ ~Active(script_process', procs')
                /\ (script_process = 0 => script_process' = 0 /\ status_item' = IDLE)]_vars

\* A start whose config write failed, issued while the handle of an exited
\* session was still tracked: nothing was launched and the handle is kept.
C11_Witness ==
    /\ last.op = "toggle"
    /\ last.raised
    /\ At(calls, "Popen") = {}
    /\ script_process # 0
    /\ procs[script_process] = "exited"
    /\ \A p \in Pids : procs[p] \notin {"running", "terminating"}

\* The documented stress levels: off, low, medium, high
StressDomain == {Lower(STRESS_LEVELS[i]) : i \in 1..Len(STRESS_LEVELS)}

\* C12: in every state after load and any sequence of selections the fields
\* of the configuration are in their documented domains (upper_limit in
\* 50..100, lower_limit in 10..50, pause_limit and reset_limit in 20..100,
\* the stress fields in off / low / medium / high) and lower_limit does not
\* exceed upper_limit.
C12_Domains ==
    /\ config.upper_limit \in 50..100
    /\ config.lower_limit \in 10..50
    /\ config.pause_limit \in 20..100
    /\ config.reset_limit \in 20..100
    /\ config.cpu_stress \in StressDomain
    /\ config.gpu_stress \in StressDomain
    /\ config.lower_limit <= config.upper_limit

\* The sessions launched by the controller that have not exited: running, or
\* signalled and still on their way out.
Alive(pr) == {p \in Pids : pr[p] \in {"running", "terminating"}}

\* C13: at any time at most one session process launched by the controller
\* is alive, over every interleaving of toggle, override, status refresh and
\* session exit.
C13_SingleSession == Cardinality(Alive(procs)) <= 1

(***************************************************************************)
(* Probe functions.  Each has a specification of its own: the initial      *)
(* states draw the input (arg), the single action applies the function     *)
(* (ret).  The controller variables rest.                                  *)
(***************************************************************************)
ProbeInit(inputs) ==
    /\ arg \in inputs
    /\ ret = NoValue
    /\ disk = AbsentFile
    /\ config = DEFAULT_CONFIG
    /\ script_process = 0
    /\ procs = [p \in Pids |-> "unborn"]
    /\ status_item = "Status: Idle"
    /\ toggle_item = "Start Cycling"
    /\ calls = <<>>
    /\ last = [op |-> "probe", val |-> 0, level |-> "", raised |-> FALSE]
    /\ faults = 0
    /\ app = "probe"

\* Sequences over S of length at most n
SeqUpTo(S, n) == UNION {[1..k -> S] : k \in 0..n}

(***************************************************************************)
(* load_config on its own.                                                 *)
(***************************************************************************)
\* Values a persisted record may hold for a key (none of them the default)
Persisted(key) ==
    CASE key = "upper_limit" -> {60, 100}
      [] key = "lower_limit" -> {30}
      [] key = "pause_limit" -> {25}
      [] key = "reset_limit" -> {95}
      [] key = "cpu_stress" -> {"low", JTRUE}
      [] key = "gpu_stress" -> {"medium"}

\* Every record over a subset of the keys KeyOrder[i..]
RECURSIVE ObjectsFrom(_)
ObjectsFrom(i) ==
    IF i > Len(KeyOrder) THEN {NoObject}
    ELSE LET rest == ObjectsFrom(i + 1) IN
         rest \cup {Put(o, KeyOrder[i], v) : o \in rest, v \in Persisted(KeyOrder[i])}

Objects == ObjectsFrom(1)

\* JSON text that is a scalar or an array, not an object
NonObjectFile == [kind |-> "nonobject", obj |-> NoObject]

LoadFiles == {AbsentFile, GarbageFile, NonObjectFile} \cup {ObjectFile(o) : o \in Objects}

LoadInit == ProbeInit({[fn |-> "load", file |-> f] : f \in LoadFiles})

LoadConfigCall ==
    /\ arg.fn = "load"
    /\ ret = NoValue
    /\ ret' = [fn |-> "load", result |-> load_config(arg.file)]
    /\ UNCHANGED <<ctlVars, arg>>

LoadSpec == LoadInit /\ [][LoadConfigCall]_vars

\* C9: for a persisted record missing any subset of the keys, load_config
\* returns a record holding every key of the defaults, with the persisted
\* value where the key was present and the default where it was not; for an
\* absent or unparsable file it returns exactly the defaults; it never raises.
C9_LoadMerges ==
    ret.fn = "load" =>
        /\ ~ret.result.raised
        /\ arg.file.kind = "object" =>
              /\ Keys \subseteq DOMAIN ret.result.value
              /\ \A k \in Keys :
                    ret.result.value[k] =
                        IF k \in DOMAIN arg.file.obj THEN arg.file.obj[k]
                        ELSE DEFAULT_CONFIG[k]
        /\ arg.file.kind \in {"absent", "garbage"} =>
              ret.result.value = DEFAULT_CONFIG

\* A record with some keys persisted and some missing has been loaded.
C9_Witness ==
    /\ ret.fn = "load"
    /\ arg.file.kind = "object"
    /\ DOMAIN arg.file.obj = {"upper_limit", "cpu_stress"}
    /\ ret.result.value.upper_limit = 100
    /\ ret.result.value.pause_limit = DEFAULT_CONFIG.pause_limit

(***************************************************************************)
(* get_battery_info.                                                       *)
(***************************************************************************)
\* The text of "pmset -g batt" as a sequence of tokens that follow each
\* other without a separator: single digits, the percent sign, and words.
Digits == {"4", "2"}

DigitValue(t) == IF t = "4" THEN 4 ELSE 2

PmsetTokens == Digits \cup {"%", "charging", "Discharging", "AC Power", "ac power", ";"}

\* subprocess.run(["pmset", "-g", "batt"], ..., timeout=5): it raises (the
\* timeout, a missing binary, undecodable output) or completes.
PmsetRuns ==
    {[raised |-> TRUE, returncode |-> 0, stdout |-> <<>>]}
        \cup {[raised |-> FALSE, returncode |-> rc, stdout |-> out] :
                 rc \in {0, 1}, out \in SeqUpTo(PmsetTokens, MaxTokens)}

\* The end of the run of digits that starts at i: the first position after it
RECURSIVE RunEnd(_, _)
RunEnd(out, i) ==
    IF i <= Len(out) /\ out[i] \in Digits THEN RunEnd(out, i + 1) ELSE i

\* int() of the digits out[i..j-1]
RECURSIVE RunValue(_, _, _, _)
RunValue(out, i, j, acc) ==
    IF i >= j THEN acc ELSE RunValue(out, i + 1, j, acc * 10 + DigitValue(out[i]))

\* re.search(r'(\d+)%', output): the leftmost position where a run of digits
\* is followed by the percent sign, 0 when there is none
RECURSIVE Search(_, _)
Search(out, i) ==
    IF i > Len(out) THEN 0
    ELSE IF out[i] \in Digits /\ RunEnd(out, i) <= Len(out) /\ out[RunEnd(out, i)] = "%"
        THEN i
        ELSE Search(out, i + 1)

\* "needle in text" for a needle that is, or lies within, one token
Contains(out, needles) == \E i \in 1..Len(out) : out[i] \in needles

\* Tokens that hold the substring "charging"
HoldCharging == {"charging", "discharging"}

LowerAll(out) == [i \in 1..Len(out) |-> Lower(out[i])]

\* The body of the try block of get_battery_info
BatteryBody(run) ==
    LET output == run.stdout
        m == Search(output, 1)
        percent == IF m # 0 THEN RunValue(output, m, RunEnd(output, m), 0) ELSE 0
        charging == Contains(LowerAll(output), HoldCharging)
                        \/ Contains(output, {"AC Power"})
    IN  [raised |-> FALSE, percent |-> percent, charging |-> charging]

\* get_battery_info with the try / except left out
get_battery_info_NoExcept(run) ==
    IF run.raised
        THEN [raised |-> TRUE, percent |-> 0, charging |-> FALSE]
        ELSE BatteryBody(run)

\* get_battery_info: the try block and "except: return 0, False"
get_battery_info(run) ==
    IF run.raised
        THEN [raised |-> FALSE, percent |-> 0, charging |-> FALSE]
        ELSE BatteryBody(run)

BatteryInit == ProbeInit({[fn |-> "battery", run |-> r] : r \in PmsetRuns})

BatteryInfoCall ==
    /\ arg.fn = "battery"
    /\ ret = NoValue
    /\ ret' = [fn |-> "battery", result |-> get_battery_info(arg.run)]
    /\ UNCHANGED <<ctlVars, arg>>

BatterySpec == BatteryInit /\ [][BatteryInfoCall]_vars

\* No digit of the text is followed by a percent sign
NoPercent(out) == ~\E i \in 1..(Len(out) - 1) : out[i] \in Digits /\ out[i + 1] = "%"

\* The text names charging (in any case) or AC power
Indicator(out) ==
    \E i \in 1..Len(out) : out[i] \in {"charging", "Discharging", "AC Power"}

\* C10 as stated: get_battery_info never raises, and on any failure of the
\* query (timeout, non-zero exit, no percent to parse) it returns (0, false).
C10_FallbackAsStated ==
    ret.fn = "battery" =>
        /\ ~ret.result.raised
        /\ (arg.run.raised \/ arg.run.returncode # 0 \/ NoPercent(arg.run.stdout)) =>
              (ret.result.percent = 0 /\ ~ret.result.charging)

\* C10 amended: get_battery_info never raises.  When the query raises
\* (timeout, command not runnable, undecodable output) it returns (0, false).
\* When the query completes, the exit status is not looked at: percent is 0
\* when the text holds no digits followed by a percent sign, and charging is
\* read from the text all the same (true iff it holds "charging" in any case
\* or "AC Power"), so the result is (0, false) only when the text holds no
\* such indicator either.
C10_Fallback ==
    ret.fn = "battery" =>
        /\ ~ret.result.raised
        /\ arg.run.raised => (ret.result.percent = 0 /\ ~ret.result.charging)
        /\ ~arg.run.raised =>
              /\ NoPercent(arg.run.stdout) => ret.result.percent = 0
              /\ ret.result.charging <=> Indicator(arg.run.stdout)
              /\ (NoPercent(arg.run.stdout) /\ ~Indicator(arg.run.stdout)) =>
                    (ret.result.percent = 0 /\ ~ret.result.charging)

\* The query completed with a text that has no percent but names AC power.
C10_Witness ==
    /\ ret.fn = "battery"
    /\ ~arg.run.raised
    /\ arg.run.returncode = 0
    /\ NoPercent(arg.run.stdout)
    /\ Contains(arg.run.stdout, {"AC Power"})
    /\ ret.result.percent = 0
    /\ ret.result.charging

(***************************************************************************)
(* The session-counter file (STATE_FILE) and its two readers.              *)
(***************************************************************************)
StateKeys == {"TOTAL_DISCHARGE_CYCLES", "INITIAL_HEALTH", "INITIAL_APPLE_CYCLES",
              "TOTAL_ACTIVE_SECS", "TOTAL_DISCHARGE_SECS", "TOTAL_CHARGE_SECS"}

\* What follows KEY= on a line: digits, digits after a blank, digits in
\* double quotes, letters, nothing.
StateVals == {"42", " 7", "\"88\"", "abc", ""}

\* A line KEY=VALUE; key "OTHER" is a line that starts with none of the keys.
StateLines ==
    {[key |-> k, val |-> v] : k \in StateKeys, v \in StateVals}
        \cup {[key |-> "OTHER", val |-> ""]}

\* str.strip()
Strip(v) == IF v = " 7" THEN "7" ELSE v

\* str.strip('"')
StripQuotes(v) == IF v = "\"88\"" THEN "88" ELSE v

\* int(v) returns for these strings and raises ValueError for the others
IntParses(v) == v \in {"42", "7"}

IntOf(v) == IF v = "42" THEN 42 ELSE 7

\* val + "%"
AddPct(v) ==
    CASE v = "42" -> "42%"
      [] v = "7" -> "7%"
      [] v = "88" -> "88%"
      [] v = "abc" -> "abc%"

StateFilesOver(lines) ==
    {[kind |-> "absent", lines |-> <<>>], [kind |-> "unreadable", lines |-> <<>>]}
        \cup {[kind |-> "text", lines |-> ls] : ls \in SeqUpTo(lines, MaxLines)}

(***************************************************************************)
(* get_cycle_info.                                                         *)
(***************************************************************************)
\* Lines of "system_profiler SPPowerDataType": a label, whether a colon
\* follows it, and the text after the last colon.
ProfLines ==
    {[label |-> "Maximum Capacity", colon |-> TRUE, value |-> "95%"],
     [label |-> "Maximum Capacity", colon |-> FALSE, value |-> ""],
     [label |-> "Cycle Count", colon |-> TRUE, value |-> "12"]}

\* subprocess.run(["system_profiler", ...], timeout=10): raises or completes
ProfRuns ==
    {[raised |-> TRUE, lines |-> <<>>]}
        \cup {[raised |-> FALSE, lines |-> ls] : ls \in SeqUpTo(ProfLines, MaxProfLines)}

\* The loop over the lines of the state file in get_cycle_info: int() of a
\* TOTAL_DISCHARGE_CYCLES line that is no integer raises out of the loop.
RECURSIVE ScanCycles(_, _, _)
ScanCycles(lines, i, cycles) ==
    IF i > Len(lines) THEN [raised |-> FALSE, cycles |-> cycles]
    ELSE IF lines[i].key = "TOTAL_DISCHARGE_CYCLES"
        THEN IF IntParses(Strip(lines[i].val))
                 THEN ScanCycles(lines, i + 1, IntOf(Strip(lines[i].val)))
                 ELSE [raised |-> TRUE, cycles |-> cycles]
        ELSE ScanCycles(lines, i + 1, cycles)

\* The loop over the report: the first line that holds "Maximum Capacity"
\* and a colon gives the health, then break.
RECURSIVE ScanHealth(_, _)
ScanHealth(lines, i) ==
    IF i > Len(lines) THEN "--"
    ELSE IF lines[i].label = "Maximum Capacity" /\ lines[i].colon
        THEN lines[i].value
        ELSE ScanHealth(lines, i + 1)

\* get_cycle_info: one try block around the file read and the query, and
\* "except: pass" before the return.
get_cycle_info(file, run) ==
    LET read == IF file.kind = "absent" THEN [raised |-> FALSE, cycles |-> 0]
                ELSE IF file.kind = "unreadable" THEN [raised |-> TRUE, cycles |-> 0]
                ELSE ScanCycles(file.lines, 1, 0)
    IN  IF read.raised \/ run.raised
            THEN [raised |-> FALSE, cycles |-> read.cycles, health |-> "--"]
            ELSE [raised |-> FALSE, cycles |-> read.cycles,
                  health |-> ScanHealth(run.lines, 1)]

CycleLines == {l \in StateLines : l.key \in {"TOTAL_DISCHARGE_CYCLES", "TOTAL_ACTIVE_SECS"}}

CycleInit ==
    ProbeInit({[fn |-> "cycle", file |-> f, run |-> r] :
                  f \in StateFilesOver(CycleLines), r \in ProfRuns})

CycleInfoCall ==
    /\ arg.fn = "cycle"
    /\ ret = NoValue
    /\ ret' = [fn |-> "cycle", result |-> get_cycle_info(arg.file, arg.run)]
    /\ UNCHANGED <<ctlVars, arg>>

CycleSpec == CycleInit /\ [][CycleInfoCall]_vars

\* Positions of the lines of key k, and of those among them that parse
LinesOf(lines, k) == {i \in 1..Len(lines) : lines[i].key = k}

IntLinesOf(lines, k) == {i \in LinesOf(lines, k) : IntParses(Strip(lines[i].val))}

Last(S) == CHOOSE i \in S : \A j \in S : j <= i

\* The read of TOTAL_DISCHARGE_CYCLES fails: the file cannot be read, or a
\* line of that key holds no integer.
CycleReadFails(file) ==
    \/ file.kind = "unreadable"
    \/ LinesOf(file.lines, "TOTAL_DISCHARGE_CYCLES")
           # IntLinesOf(file.lines, "TOTAL_DISCHARGE_CYCLES")

\* The health the power-data report provides
ReportedHealth(run) ==
    IF run.raised
           \/ ~\E i \in 1..Len(run.lines) :
                  run.lines[i].label = "Maximum Capacity" /\ run.lines[i].colon
        THEN "--"
        ELSE run.lines[CHOOSE i \in 1..Len(run.lines) :
                          /\ run.lines[i].label = "Maximum Capacity" /\ run.lines[i].colon
                          /\ \A j \in 1..(i - 1) :
                                ~(run.lines[j].label = "Maximum Capacity"
                                     /\ run.lines[j].colon)].value

\* C7: in get_cycle_info the file read and the OS query are independent: a
\* failure of the read of TOTAL_DISCHARGE_CYCLES gives cycles = 0 and still
\* the health the OS query provides; a failure of the OS query gives health
\* "--" and still the cycle count of the file.
C7_Independent ==
    ret.fn = "cycle" =>
        /\ ret.result.health = ReportedHealth(arg.run)
        /\ CycleReadFails(arg.file) => ret.result.cycles = 0
        /\ ~CycleReadFails(arg.file) =>
              ret.result.cycles =
                  IF LinesOf(arg.file.lines, "TOTAL_DISCHARGE_CYCLES") = {} THEN 0
                  ELSE IntOf(Strip(arg.file.lines[
                           Last(LinesOf(arg.file.lines, "TOTAL_DISCHARGE_CYCLES"))].val))

(***************************************************************************)
(* show_stats: the parsing of the state file.                              *)
(***************************************************************************)
StatsDefaults ==
    [script_cycles |-> 0, initial_health |-> "N/A", initial_apple_cycles |-> "N/A",
     total_active_secs |-> 0, total_discharge_secs |-> 0, total_charge_secs |-> 0]

\* One turn of the loop "for line in content.split('\n')": the if / elif chain
StatsLine(st, line) ==
    LET key == line.key
        num == Strip(line.val)
        str == StripQuotes(Strip(line.val))
        keep == [raised |-> FALSE, st |-> st]
    IN  CASE key = "TOTAL_DISCHARGE_CYCLES" ->
                 IF IntParses(num)
                     THEN [raised |-> FALSE, st |-> [st EXCEPT !.script_cycles = IntOf(num)]]
                     ELSE [raised |-> TRUE, st |-> st]
          [] key = "INITIAL_HEALTH" ->
                 IF str # ""
                     THEN [raised |-> FALSE, st |-> [st EXCEPT !.initial_health = AddPct(str)]]
                     ELSE keep
          [] key = "INITIAL_APPLE_CYCLES" ->
                 IF str # ""
                     THEN [raised |-> FALSE, st |-> [st EXCEPT !.initial_apple_cycles = str]]
                     ELSE keep
          [] key = "TOTAL_ACTIVE_SECS" ->
                 IF IntParses(num)
                     THEN [raised |-> FALSE, st |-> [st EXCEPT !.total_active_secs = IntOf(num)]]
                     ELSE keep
          [] key = "TOTAL_DISCHARGE_SECS" ->
                 IF IntParses(num)
                     THEN [raised |-> FALSE, st |-> [st EXCEPT !.total_discharge_secs = IntOf(num)]]
                     ELSE keep
          [] key = "TOTAL_CHARGE_SECS" ->
                 IF IntParses(num)
                     THEN [raised |-> FALSE, st |-> [st EXCEPT !.total_charge_secs = IntOf(num)]]
                     ELSE keep
          [] OTHER -> keep

\* The loop inside the try block; an exception of a turn ends it
\* ("except: pass"), what was assigned before stays.
RECURSIVE StatsLoop(_, _, _)
StatsLoop(lines, i, st) ==
    IF i > Len(lines) THEN st
    ELSE LET r == StatsLine(st, lines[i]) IN
         IF r.raised THEN r.st ELSE StatsLoop(lines, i + 1, r.st)

\* show_stats, "Get state file info"
ParseStateFile(file) ==
    IF file.kind = "text" THEN StatsLoop(file.lines, 1, StatsDefaults)
    ELSE StatsDefaults

StatsInit == ProbeInit({[fn |-> "stats", file |-> f] : f \in StateFilesOver(StateLines)})

ShowStatsCall ==
    /\ arg.fn = "stats"
    /\ ret = NoValue
    /\ ret' = [fn |-> "stats", result |-> ParseStateFile(arg.file)]
    /\ UNCHANGED <<ctlVars, arg>>

StatsSpec == StatsInit /\ [][ShowStatsCall]_vars

CounterKeys == {"TOTAL_DISCHARGE_CYCLES", "TOTAL_ACTIVE_SECS",
                "TOTAL_DISCHARGE_SECS", "TOTAL_CHARGE_SECS"}

FieldOf(key) ==
    CASE key = "TOTAL_DISCHARGE_CYCLES" -> "script_cycles"
      [] key = "INITIAL_HEALTH" -> "initial_health"
      [] key = "INITIAL_APPLE_CYCLES" -> "initial_apple_cycles"
      [] key = "TOTAL_ACTIVE_SECS" -> "total_active_secs"
      [] key = "TOTAL_DISCHARGE_SECS" -> "total_discharge_secs"
      [] key = "TOTAL_CHARGE_SECS" -> "total_charge_secs"

\* A line is well formed for its key: an integer for a counter, a non-empty
\* text for a string field.
WellFormed(line) ==
    IF line.key \in CounterKeys THEN IntParses(Strip(line.val))
    ELSE StripQuotes(Strip(line.val)) # ""

\* The value a well-formed line gives its field
FileValue(line) ==
    CASE line.key \in CounterKeys -> IntOf(Strip(line.val))
      [] line.key = "INITIAL_HEALTH" -> AddPct(StripQuotes(Strip(line.val)))
      [] line.key = "INITIAL_APPLE_CYCLES" -> StripQuotes(Strip(line.val))

GoodLines(lines, k) == {i \in LinesOf(lines, k) : WellFormed(lines[i])}

\* C8: in the state-file parsing of show_stats a missing or malformed line of
\* one field does not stop the parsing of the other lines: a field whose
\* lines are all well formed takes the value of its (last) line wherever the
\* bad line of another field stands, and a field with no well-formed line
\* takes its default.
C8_FieldLocal ==
    ret.fn = "stats" =>
        \A k \in StateKeys :
            LET all == LinesOf(arg.file.lines, k)
                good == GoodLines(arg.file.lines, k)
            IN  /\ good = {} => ret.result[FieldOf(k)] = StatsDefaults[FieldOf(k)]
                /\ (good # {} /\ good = all) =>
                      ret.result[FieldOf(k)] = FileValue(arg.file.lines[Last(good)])

====
